---- MODULE Spec2Model ----
(***************************************************************************)
(* QuickFind (src/src/main.rs): a terminal file browser.  The model is the *)
(* application state machine of AppState driven by key events, together    *)
(* with the directory tree it lists and mutates and the main loop's exit   *)
(* path.                                                                   *)
(*                                                                         *)
(* A String is a sequence of one-character strings; a path is a sequence   *)
(* of component names, the root being << >>.                               *)
(***************************************************************************)
EXTENDS Integers, Sequences, FiniteSets, TLC

\* Total length of the popup texts the user submits with an effect on the
\* tree in one run; a text being typed is no longer than what is left of it.
MaxTyped == 3

\* The characters the keyboard can deliver in the model.
Chars == {" ", "/", "D", "N", "R", "Y", "d", "e", "n", "r", "s", "y"}

\* The characters the user types in the scenarios explored: a command key or
\* an unbound letter while browsing, a name or path in the create and rename
\* popups, an answer in the delete popup.
CommandChars == {"n", "N", "d", "D", "r", "R", "y"}
NameChars == {"d", "/", " "}
AnswerChars == {"y", "Y", "e", "s", " "}

\* Byte value of a character: String comparison in Rust is bytewise.
Code(c) ==
    CASE c = " " -> 32
      [] c = "/" -> 47
      [] c = "D" -> 68
      [] c = "N" -> 78
      [] c = "R" -> 82
      [] c = "Y" -> 89
      [] c = "d" -> 100
      [] c = "e" -> 101
      [] c = "n" -> 110
      [] c = "r" -> 114
      [] c = "s" -> 115
      [] c = "y" -> 121

---------------------------------------------------------------------------
(* Strings                                                                 *)

\* char::to_lowercase on the model's alphabet.
LowerChar(c) ==
    CASE c = "D" -> "d"
      [] c = "N" -> "n"
      [] c = "R" -> "r"
      [] c = "Y" -> "y"
      [] OTHER -> c

RECURSIVE to_lowercase(_)
to_lowercase(s) ==
    IF s = << >> THEN << >>
    ELSE << LowerChar(Head(s)) >> \o to_lowercase(Tail(s))

RECURSIVE trim_start(_)
trim_start(s) ==
    IF s # << >> /\ Head(s) = " " THEN trim_start(Tail(s)) ELSE s

RECURSIVE trim_end(_)
trim_end(s) ==
    IF s # << >> /\ s[Len(s)] = " " THEN trim_end(SubSeq(s, 1, Len(s) - 1)) ELSE s

trim(s) == trim_end(trim_start(s))

\* Ord for String: lexicographic on bytes, a proper prefix sorts first.
StrLess(a, b) ==
    \E i \in 1..(Len(b)) :
        /\ \A j \in 1..(i - 1) : j <= Len(a) /\ a[j] = b[j]
        /\ \/ i = Len(a) + 1
           \/ i <= Len(a) /\ Code(a[i]) < Code(b[i])

RECURSIVE Insert(_, _)
Insert(x, s) ==
    IF s = << >> THEN << x >>
    ELSE IF StrLess(Head(s), x) THEN << Head(s) >> \o Insert(x, Tail(s))
    ELSE << x >> \o s

\* Vec<String>::sort.
RECURSIVE sort(_)
sort(s) == IF s = << >> THEN << >> ELSE Insert(Head(s), sort(Tail(s)))

---------------------------------------------------------------------------
(* Paths                                                                   *)

\* The components of a path string from position i on: "/" separates,
\* empty components are dropped; cur is the component being read.
RECURSIVE SplitAt(_, _, _)
SplitAt(s, i, cur) ==
    IF i > Len(s) THEN (IF cur = << >> THEN << >> ELSE << cur >>)
    ELSE IF s[i] = "/"
         THEN (IF cur = << >> THEN << >> ELSE << cur >>) \o SplitAt(s, i + 1, << >>)
         ELSE SplitAt(s, i + 1, Append(cur, s[i]))

Components(s) == SplitAt(s, 1, << >>)

\* PathBuf::join: an absolute argument replaces the base.  comps are the
\* components, which is what PathBuf equality compares; slash records a
\* trailing "/", which the system calls see.
join(base, s) ==
    [comps |-> IF s # << >> /\ s[1] = "/" THEN Components(s)
                                          ELSE base \o Components(s),
     slash |-> s # << >> /\ s[Len(s)] = "/"]

\* PathBuf::pop: drops the last component, does nothing at the root.
pop(p) == IF p = << >> THEN p ELSE SubSeq(p, 1, Len(p) - 1)

Parent(p) == SubSeq(p, 1, Len(p) - 1)

IsPrefix(p, q) == Len(p) <= Len(q) /\ SubSeq(q, 1, Len(p)) = p

---------------------------------------------------------------------------
(* The directory tree.  A tree is a set of nodes [path, kind, size]; the   *)
(* root directory << >> is always there.  size is the length of a file's   *)
(* content (0 for a directory).                                            *)

Dir(p) == [path |-> p, kind |-> "dir", size |-> 0]
File(p, n) == [path |-> p, kind |-> "file", size |-> n]

HasNode(f, p) == p = << >> \/ \E n \in f : n.path = p
DirAt(f, p) == p = << >> \/ \E n \in f : n.path = p /\ n.kind = "dir"
FileAt(f, p) == \E n \in f : n.path = p /\ n.kind = "file"
Under(f, p) == {n \in f : IsPrefix(p, n.path)}
ChildNames(f, d) ==
    {n.path[Len(n.path)] : n \in {m \in f : Len(m.path) = Len(d) + 1 /\ IsPrefix(d, m.path)}}

\* Path::exists: stat succeeds; a trailing "/" requires a directory.
exists(f, t) == HasNode(f, t.comps) /\ (t.slash => DirAt(f, t.comps))

\* Path::is_dir.
is_dir(f, t) == DirAt(f, t.comps)

Ok(f) == [ok |-> TRUE, fs |-> f]
Err(f) == [ok |-> FALSE, fs |-> f]

\* fs::write(path, ""): open(O_CREAT | O_TRUNC), write nothing.
fs_write(f, t) ==
    IF \/ t.comps = << >>
       \/ t.slash
       \/ ~DirAt(f, Parent(t.comps))
       \/ DirAt(f, t.comps)
    THEN Err(f)
    ELSE Ok({n \in f : n.path # t.comps} \cup {File(t.comps, 0)})

\* fs::create_dir: mkdir.
fs_create_dir(f, t) ==
    IF \/ t.comps = << >>
       \/ HasNode(f, t.comps)
       \/ ~DirAt(f, Parent(t.comps))
    THEN Err(f)
    ELSE Ok(f \cup {Dir(t.comps)})

\* fs::remove_dir_all.
fs_remove_dir_all(f, t) ==
    IF t.comps = << >> \/ ~DirAt(f, t.comps) THEN Err(f)
    ELSE Ok(f \ Under(f, t.comps))

\* fs::remove_file: unlink.
fs_remove_file(f, t) ==
    IF ~FileAt(f, t.comps) THEN Err(f)
    ELSE Ok({n \in f : n.path # t.comps})

\* fs::rename: rename(2).  A file replaces a file, a directory replaces an
\* empty directory; a directory cannot move below itself.
fs_rename(f, old, new) ==
    IF \/ old.comps = << >> \/ new.comps = << >>
       \/ ~HasNode(f, old.comps)
       \/ ~DirAt(f, Parent(new.comps))
       \/ (old.slash \/ new.slash) /\ ~DirAt(f, old.comps)
       \/ DirAt(f, old.comps) /\ old.comps # new.comps /\ IsPrefix(old.comps, new.comps)
       \/ FileAt(f, old.comps) /\ DirAt(f, new.comps)
       \/ DirAt(f, old.comps) /\ FileAt(f, new.comps)
       \/ DirAt(f, old.comps) /\ old.comps # new.comps
            /\ DirAt(f, new.comps) /\ Under(f, new.comps) # {Dir(new.comps)}
    THEN Err(f)
    ELSE IF old.comps = new.comps THEN Ok(f)
    ELSE Ok((f \ (Under(f, old.comps) \cup Under(f, new.comps)))
            \cup {[n EXCEPT !.path = new.comps \o SubSeq(n.path, Len(old.comps) + 1, Len(n.path))]
                    : n \in Under(f, old.comps)})

\* fs::read_dir: the children in directory order, which is unspecified;
\* the model yields them last name first.  The call fails if the directory
\* is missing, and also when the system does not grant it (permission
\* denied, descriptor limit, disk error): granted = FALSE.
RECURSIVE Enumerate(_)
Enumerate(S) ==
    IF S = {} THEN << >>
    ELSE LET x == CHOOSE y \in S : \A z \in S \ {y} : StrLess(z, y)
         IN  << x >> \o Enumerate(S \ {x})

fs_read_dir(f, d, granted) ==
    IF granted /\ DirAt(f, d) THEN [ok |-> TRUE, names |-> Enumerate(ChildNames(f, d))]
    ELSE [ok |-> FALSE, names |-> << >>]

---------------------------------------------------------------------------
(* AppState and the process around it                                      *)

VARIABLES
    fs,              \* the directory tree on disk
    focus_dir,       \* AppState.focus_dir
    entries,         \* AppState.entries
    selected_index,  \* AppState.selected_index (0-based, as in the code)
    list_state,      \* AppState.list_state: the index the renderer highlights
    popup_mode,      \* AppState.popup_mode
    input_buffer,    \* AppState.input_buffer
    break_now,       \* AppState.break_now
    pc,              \* "running" in the loop, "leaving" between the loop and
                     \* the hand-off command, "done" after main returns Ok,
                     \* "crashed" after main returned an Err
    terminal,        \* raw mode and cursor visibility of the terminal
    shell_cmds,      \* the focus_dir of every hand-off command run
    typed,           \* total length of the texts submitted with an effect
    at_open,         \* history: the view and tree when the popup opened
    last_action,     \* history: the popup the last key event closed, if any
    last_key         \* history: the bound key handled last while browsing,
                     \* with the focus_dir and selected_index it found

vars == << fs, focus_dir, entries, selected_index, list_state, popup_mode,
           input_buffer, break_now, pc, terminal, shell_cmds, typed,
           at_open, last_action, last_key >>

app == << focus_dir, entries, selected_index, list_state, popup_mode,
          input_buffer, break_now >>

PopupMode == {"None", "CreateFile", "CreateDir", "Delete", "Rename"}

KeyCodes == {"Enter", "Esc", "Right", "Left", "Up", "Down", "Backspace", "Char"}

\* The key events of the model: a code, the character of a Char key, and
\* whether KeyModifiers::SHIFT is set.
Keys ==
    [code : KeyCodes \ {"Char"}, ch : {""}, shift : {FALSE}]
        \cup [code : {"Char"}, ch : Chars, shift : BOOLEAN]

\* Whether the user sends `key` while `mode` is on screen with `buf` typed and
\* `used` characters already submitted: no popup is asked for once nothing is
\* left to type, and shift is held with a command key only.
Offered(key, mode, buf, used) ==
    key.code = "Char" =>
        IF mode = "None"
        THEN /\ key.ch \in CommandChars
             /\ key.ch \in {"n", "N", "d", "D", "r", "R"} => used < MaxTyped
        ELSE /\ ~key.shift
             /\ key.ch \in (IF mode = "Delete" THEN AnswerChars ELSE NameChars)
             /\ used + Len(buf) < MaxTyped

View == [focus_dir |-> focus_dir, entries |-> entries,
         selected_index |-> selected_index, fs |-> fs]

NoView == [focus_dir |-> << >>, entries |-> << >>, selected_index |-> 0, fs |-> {}]

NoAction == [mode |-> "None", buffer |-> << >>, target |-> << >>, result |-> "none"]

NoKey == [code |-> "none", ch |-> "", shift |-> FALSE,
          focus_dir |-> << >>, selected_index |-> 0, follows |-> "none"]

\* The record of a key handled by handle_main_input in the present state;
\* follows tells what the key before it did to a popup.
Pressed(key) ==
    [code |-> key.code, ch |-> key.ch, shift |-> key.shift,
     focus_dir |-> focus_dir, selected_index |-> selected_index,
     follows |-> last_action.result]

\* The record of a popup answered with Enter or Esc: its mode, its text, the
\* selected entry's name (<< >> if none) and what came of it: "cancelled",
\* "noop" (no filesystem call), "done" or "failed" (the call's result).
Closed(mode, buf, ents, sel, result) ==
    [mode |-> mode, buffer |-> buf,
     target |-> IF sel < Len(ents) THEN ents[sel + 1] ELSE << >>,
     result |-> result]

\* Vec::get with a 0-based index: the element as a one-element sequence,
\* or << >> for None.
get(v, i) == IF i < Len(v) THEN << v[i + 1] >> ELSE << >>

\* The tree the program is started in: the current directory /r holds the
\* directory d (holding the file d) and the files dd and n.  The sizes tell
\* the files apart.
InitFs ==
    { Dir(<< <<"r">> >>),
      Dir(<< <<"r">>, <<"d">> >>),
      File(<< <<"r">>, <<"d">>, <<"d">> >>, 1),
      File(<< <<"r">>, <<"d", "d">> >>, 2),
      File(<< <<"r">>, <<"n">> >>, 3) }

InitDir == << <<"r">> >>

\* read_entries without the sort.
read_entries_Unsorted(f, dir, granted) == fs_read_dir(f, dir, granted)

read_entries(f, dir, granted) ==
    LET r == fs_read_dir(f, dir, granted)
    IN  [ok |-> r.ok, names |-> sort(r.names)]

\* refresh_entries without the clamp of selected_index.
refresh_entries_NoClamp(f, dir, sel, granted) ==
    LET r == read_entries(f, dir, granted)
    IN  [ok |-> r.ok, entries |-> r.names, selected_index |-> sel]

\* A refresh_entries that puts the selection on the first entry.
refresh_entries_ResetsSelection(f, dir, sel, granted) ==
    LET r == read_entries(f, dir, granted)
    IN  [ok |-> r.ok, entries |-> r.names, selected_index |-> 0]

\* AppState::refresh_entries: the new entries and selected_index.
refresh_entries(f, dir, sel, granted) ==
    LET r == read_entries(f, dir, granted)
    IN  [ok |-> r.ok,
         entries |-> r.names,
         selected_index |->
             IF sel >= Len(r.names) /\ r.names # << >> THEN Len(r.names) - 1 ELSE sel]

\* AppState::new, then the terminal set-up of main: the program is running,
\* so the listing of the current directory succeeded.
Init ==
    /\ fs = InitFs
    /\ focus_dir = InitDir
    /\ entries = read_entries(InitFs, InitDir, TRUE).names
    /\ selected_index = 0
    /\ list_state = 0
    /\ popup_mode = "None"
    /\ input_buffer = << >>
    /\ break_now = FALSE
    /\ pc = "running"
    /\ terminal = [raw |-> TRUE, cursor |-> "hidden"]
    /\ shell_cmds = << >>
    /\ typed = 0
    /\ at_open = NoView
    /\ last_action = NoAction
    /\ last_key = NoKey

\* An error exit that restores the terminal on its way out.
Crash_RestoresTerminal ==
    /\ pc' = "crashed"
    /\ terminal' = [raw |-> FALSE, cursor |-> "shown"]
    /\ UNCHANGED shell_cmds

\* An Err that `?` carries out of main: the process ends where it stands.
Crash ==
    /\ pc' = "crashed"
    /\ UNCHANGED << terminal, shell_cmds >>

Continue == UNCHANGED << pc, terminal, shell_cmds >>

---------------------------------------------------------------------------
(* main's loop and handle_input                                            *)

\* A loop that does not test break_now.
LoopContinues_IgnoresFlag(state, flag) == state = "running"

\* The test at the top of the loop: the iteration goes on to draw and poll.
LoopContinues(state, flag) == state = "running" /\ ~flag

\* A handle_input that hands every key event to handle_main_input.
PopupOpen_Never(mode) == FALSE

\* Whether handle_input hands a key event to the popup handler.
PopupOpen(mode) == mode # "None"

\* One iteration of the loop reads `key` and handle_input hands it to
\* handle_main_input, whose arm for `code` matches.
Main(key, code) ==
    /\ key.code = code
    /\ LoopContinues(pc, break_now)
    /\ ~PopupOpen(popup_mode)
    /\ Offered(key, popup_mode, input_buffer, typed)

\* The same for handle_popup_input.
Popup(key, code) ==
    /\ key.code = code
    /\ LoopContinues(pc, break_now)
    /\ PopupOpen(popup_mode)
    /\ Offered(key, popup_mode, input_buffer, typed)

---------------------------------------------------------------------------
(* handle_main_input                                                       *)

MainEnter(key) ==
    /\ Main(key, "Enter")
    /\ break_now' = TRUE
    /\ Continue
    /\ last_key' = Pressed(key)
    /\ last_action' = NoAction
    /\ UNCHANGED << fs, focus_dir, entries, selected_index, list_state,
                    popup_mode, input_buffer, typed, at_open >>

MainEsc(key) ==
    /\ Main(key, "Esc")
    /\ break_now' = TRUE
    /\ Continue
    /\ last_key' = Pressed(key)
    /\ last_action' = NoAction
    /\ UNCHANGED << fs, focus_dir, entries, selected_index, list_state,
                    popup_mode, input_buffer, typed, at_open >>

\* A directory change that keeps the selection refresh_entries leaves.
ChangeDir_KeepsSelection(dir, granted) ==
    LET r == refresh_entries(fs, dir, selected_index, granted)
    IN  /\ focus_dir' = dir
        /\ IF r.ok
           THEN /\ entries' = r.entries
                /\ selected_index' = r.selected_index
                /\ list_state' = r.selected_index
                /\ Continue
           ELSE /\ UNCHANGED << entries, selected_index, list_state >>
                /\ Crash

\* The tail of the Right and Left arms: focus_dir is already `dir` when
\* refresh_entries runs; then the selection is put on the first entry.
ChangeDir(dir, granted) ==
    LET r == refresh_entries(fs, dir, selected_index, granted)
    IN  /\ focus_dir' = dir
        /\ IF r.ok
           THEN /\ entries' = r.entries
                /\ selected_index' = 0
                /\ list_state' = 0
                /\ Continue
           ELSE /\ UNCHANGED << entries, selected_index, list_state >>
                /\ Crash

\* A Right arm that does not test whether the selected entry is a directory.
MainRight_EntersFiles(key) ==
    /\ Main(key, "Right")
    /\ LET entry == get(entries, selected_index)
       IN  IF entry # << >>
           THEN \E granted \in BOOLEAN : ChangeDir(join(focus_dir, entry[1]).comps, granted)
           ELSE /\ UNCHANGED << focus_dir, entries, selected_index, list_state >>
                /\ Continue
    /\ last_key' = Pressed(key)
    /\ last_action' = NoAction
    /\ UNCHANGED << fs, popup_mode, input_buffer, break_now, typed, at_open >>

MainRight(key) ==
    /\ Main(key, "Right")
    /\ LET entry == get(entries, selected_index)
       IN  IF entry # << >> /\ is_dir(fs, join(focus_dir, entry[1]))
           THEN \E granted \in BOOLEAN : ChangeDir(join(focus_dir, entry[1]).comps, granted)
           ELSE /\ UNCHANGED << focus_dir, entries, selected_index, list_state >>
                /\ Continue
    /\ last_key' = Pressed(key)
    /\ last_action' = NoAction
    /\ UNCHANGED << fs, popup_mode, input_buffer, break_now, typed, at_open >>

\* A Left arm that does nothing when focus_dir is the root.
MainLeft_NoOpAtRoot(key) ==
    /\ Main(key, "Left")
    /\ IF focus_dir = << >>
       THEN /\ UNCHANGED << focus_dir, entries, selected_index, list_state >>
            /\ Continue
       ELSE \E granted \in BOOLEAN : ChangeDir(pop(focus_dir), granted)
    /\ last_key' = Pressed(key)
    /\ last_action' = NoAction
    /\ UNCHANGED << fs, popup_mode, input_buffer, break_now, typed, at_open >>

MainLeft(key) ==
    /\ Main(key, "Left")
    /\ \E granted \in BOOLEAN : ChangeDir(pop(focus_dir), granted)
    /\ last_key' = Pressed(key)
    /\ last_action' = NoAction
    /\ UNCHANGED << fs, popup_mode, input_buffer, break_now, typed, at_open >>

MainUp(key) ==
    /\ Main(key, "Up")
    /\ IF selected_index > 0
       THEN /\ selected_index' = selected_index - 1
            /\ list_state' = selected_index - 1
       ELSE UNCHANGED << selected_index, list_state >>
    /\ Continue
    /\ last_key' = Pressed(key)
    /\ last_action' = NoAction
    /\ UNCHANGED << fs, focus_dir, entries, popup_mode, input_buffer,
                    break_now, typed, at_open >>

\* A Down arm that goes from the last entry to the first.
MainDown_Wraps(key) ==
    /\ Main(key, "Down")
    /\ IF selected_index + 1 < Len(entries)
       THEN /\ selected_index' = selected_index + 1
            /\ list_state' = selected_index + 1
       ELSE /\ selected_index' = 0
            /\ list_state' = 0
    /\ Continue
    /\ last_key' = Pressed(key)
    /\ last_action' = NoAction
    /\ UNCHANGED << fs, focus_dir, entries, popup_mode, input_buffer,
                    break_now, typed, at_open >>

MainDown(key) ==
    /\ Main(key, "Down")
    /\ IF selected_index + 1 < Len(entries)
       THEN /\ selected_index' = selected_index + 1
            /\ list_state' = selected_index + 1
       ELSE UNCHANGED << selected_index, list_state >>
    /\ Continue
    /\ last_key' = Pressed(key)
    /\ last_action' = NoAction
    /\ UNCHANGED << fs, focus_dir, entries, popup_mode, input_buffer,
                    break_now, typed, at_open >>

\* Char('n') | Char('N')
MainKeyN(key) ==
    /\ Main(key, "Char")
    /\ key.ch \in {"n", "N"}
    /\ popup_mode' = (IF key.shift THEN "CreateDir" ELSE "CreateFile")
    /\ input_buffer' = << >>
    /\ at_open' = View
    /\ Continue
    /\ last_key' = Pressed(key)
    /\ last_action' = NoAction
    /\ UNCHANGED << fs, focus_dir, entries, selected_index, list_state,
                    break_now, typed >>

\* A d/D arm that opens Delete on an empty listing as well.
MainKeyD_NoEmptyCheck(key) ==
    /\ Main(key, "Char")
    /\ key.ch \in {"d", "D"}
    /\ popup_mode' = "Delete"
    /\ input_buffer' = << >>
    /\ at_open' = View
    /\ Continue
    /\ last_key' = Pressed(key)
    /\ last_action' = NoAction
    /\ UNCHANGED << fs, focus_dir, entries, selected_index, list_state,
                    break_now, typed >>

\* Char('d') | Char('D')
MainKeyD(key) ==
    /\ Main(key, "Char")
    /\ key.ch \in {"d", "D"}
    /\ IF entries # << >>
       THEN /\ popup_mode' = "Delete"
            /\ input_buffer' = << >>
            /\ at_open' = View
       ELSE UNCHANGED << popup_mode, input_buffer, at_open >>
    /\ Continue
    /\ last_key' = Pressed(key)
    /\ last_action' = NoAction
    /\ UNCHANGED << fs, focus_dir, entries, selected_index, list_state,
                    break_now, typed >>

\* An r/R arm that opens Rename without putting the name in the buffer.
MainKeyR_NoSeed(key) ==
    /\ Main(key, "Char")
    /\ key.ch \in {"r", "R"}
    /\ IF entries # << >>
       THEN /\ popup_mode' = "Rename"
            /\ at_open' = View
       ELSE UNCHANGED << popup_mode, at_open >>
    /\ UNCHANGED input_buffer
    /\ Continue
    /\ last_key' = Pressed(key)
    /\ last_action' = NoAction
    /\ UNCHANGED << fs, focus_dir, entries, selected_index, list_state,
                    break_now, typed >>

\* Char('r') | Char('R')
MainKeyR(key) ==
    /\ Main(key, "Char")
    /\ key.ch \in {"r", "R"}
    /\ IF entries # << >>
       THEN /\ popup_mode' = "Rename"
            /\ LET current_name == get(entries, selected_index)
               IN  input_buffer' =
                       (IF current_name # << >> THEN current_name[1] ELSE input_buffer)
            /\ at_open' = View
       ELSE UNCHANGED << popup_mode, input_buffer, at_open >>
    /\ Continue
    /\ last_key' = Pressed(key)
    /\ last_action' = NoAction
    /\ UNCHANGED << fs, focus_dir, entries, selected_index, list_state,
                    break_now, typed >>

\* The `_ => {}` arm: Backspace and every other character.
MainOther(key) ==
    /\ \/ Main(key, "Backspace")
       \/ Main(key, "Char") /\ key.ch \notin {"n", "N", "d", "D", "r", "R"}
    /\ Continue
    /\ last_key' = NoKey
    /\ last_action' = NoAction
    /\ UNCHANGED << fs, focus_dir, entries, selected_index, list_state,
                    popup_mode, input_buffer, break_now, typed, at_open >>

handle_main_input(key) ==
    \/ MainEnter(key)
    \/ MainEsc(key)
    \/ MainRight(key)
    \/ MainLeft(key)
    \/ MainUp(key)
    \/ MainDown(key)
    \/ MainKeyN(key)
    \/ MainKeyD(key)
    \/ MainKeyR(key)
    \/ MainOther(key)

---------------------------------------------------------------------------
(* execute_popup_action                                                    *)

\* What one arm of execute_popup_action did: whether it made a filesystem
\* call, whether that call returned Ok, and the tree afterwards.
Skip(f) == [called |-> FALSE, ok |-> TRUE, fs |-> f]
Call(r) == [called |-> TRUE, ok |-> r.ok, fs |-> r.fs]

\* The CreateFile arm without the test that the path is free.
CreateFileAction_NoExistsCheck(f, dir, buf) ==
    IF trim(buf) # << >> THEN Call(fs_write(f, join(dir, buf))) ELSE Skip(f)

CreateFileAction(f, dir, buf) ==
    IF trim(buf) # << >>
    THEN LET file_path == join(dir, buf)
         IN  IF ~exists(f, file_path) THEN Call(fs_write(f, file_path)) ELSE Skip(f)
    ELSE Skip(f)

\* The CreateDir arm testing the text for emptiness without trimming it.
CreateDirAction_NoTrim(f, dir, buf) ==
    IF buf # << >>
    THEN LET dir_path == join(dir, buf)
         IN  IF ~exists(f, dir_path) THEN Call(fs_create_dir(f, dir_path)) ELSE Skip(f)
    ELSE Skip(f)

CreateDirAction(f, dir, buf) ==
    IF trim(buf) # << >>
    THEN LET dir_path == join(dir, buf)
         IN  IF ~exists(f, dir_path) THEN Call(fs_create_dir(f, dir_path)) ELSE Skip(f)
    ELSE Skip(f)

\* The confirmation test with the answer trimmed first.
Confirmed_Trimmed(buf) ==
    to_lowercase(trim(buf)) = << "y" >> \/ to_lowercase(trim(buf)) = << "y", "e", "s" >>

\* The confirmation test of the Delete arm.
Confirmed(buf) ==
    to_lowercase(buf) = << "y" >> \/ to_lowercase(buf) = << "y", "e", "s" >>

\* The Delete arm removing the first entry instead of the selected one.
DeleteAction_FirstEntry(f, dir, buf, ents, sel) ==
    IF Confirmed(buf)
    THEN LET entry == get(ents, 0)
         IN  IF entry # << >>
             THEN LET target_path == join(dir, entry[1])
                  IN  IF is_dir(f, target_path)
                      THEN Call(fs_remove_dir_all(f, target_path))
                      ELSE Call(fs_remove_file(f, target_path))
             ELSE Skip(f)
    ELSE Skip(f)

DeleteAction(f, dir, buf, ents, sel) ==
    IF Confirmed(buf)
    THEN LET entry == get(ents, sel)
         IN  IF entry # << >>
             THEN LET target_path == join(dir, entry[1])
                  IN  IF is_dir(f, target_path)
                      THEN Call(fs_remove_dir_all(f, target_path))
                      ELSE Call(fs_remove_file(f, target_path))
             ELSE Skip(f)
    ELSE Skip(f)

\* The Rename arm without the test that the new path is free.
RenameAction_NoExistsCheck(f, dir, buf, ents, sel) ==
    IF trim(buf) # << >>
    THEN LET old_name == get(ents, sel)
         IN  IF old_name # << >>
             THEN LET old_path == join(dir, old_name[1])
                      new_path == join(dir, buf)
                  IN  IF old_path.comps # new_path.comps
                      THEN Call(fs_rename(f, old_path, new_path))
                      ELSE Skip(f)
             ELSE Skip(f)
    ELSE Skip(f)

RenameAction(f, dir, buf, ents, sel) ==
    IF trim(buf) # << >>
    THEN LET old_name == get(ents, sel)
         IN  IF old_name # << >>
             THEN LET old_path == join(dir, old_name[1])
                      new_path == join(dir, buf)
                  IN  IF old_path.comps # new_path.comps /\ ~exists(f, new_path)
                      THEN Call(fs_rename(f, old_path, new_path))
                      ELSE Skip(f)
             ELSE Skip(f)
    ELSE Skip(f)

\* The match on popup_mode.
PopupAction(mode, f, dir, buf, ents, sel) ==
    CASE mode = "CreateFile" -> CreateFileAction(f, dir, buf)
      [] mode = "CreateDir" -> CreateDirAction(f, dir, buf)
      [] mode = "Delete" -> DeleteAction(f, dir, buf, ents, sel)
      [] mode = "Rename" -> RenameAction(f, dir, buf, ents, sel)
      [] mode = "None" -> Skip(f)

\* The end of execute_popup_action without the call of refresh_entries.
ClosePopup_NoRefresh(f, granted) ==
    /\ popup_mode' = "None"
    /\ input_buffer' = << >>
    /\ UNCHANGED << entries, selected_index, list_state >>
    /\ Continue

\* The three statements after the match; `?` on the listing leaves the loop.
ClosePopup(f, granted) ==
    LET r == refresh_entries(f, focus_dir, selected_index, granted)
    IN  /\ popup_mode' = "None"
        /\ input_buffer' = << >>
        /\ IF r.ok
           THEN /\ entries' = r.entries
                /\ selected_index' = r.selected_index
                /\ list_state' = r.selected_index
                /\ Continue
           ELSE /\ UNCHANGED << entries, selected_index, list_state >>
                /\ Crash

execute_popup_action ==
    LET act == PopupAction(popup_mode, fs, focus_dir, input_buffer, entries, selected_index)
    IN  /\ fs' = act.fs
        /\ IF act.ok
           THEN /\ \E granted \in BOOLEAN : ClosePopup(act.fs, granted)
                /\ at_open' = NoView
           ELSE /\ Crash
                /\ UNCHANGED << popup_mode, input_buffer, entries,
                                selected_index, list_state, at_open >>
        /\ last_action' =
               Closed(popup_mode, input_buffer, entries, selected_index,
                      IF ~act.ok THEN "failed" ELSE IF act.called THEN "done" ELSE "noop")
        /\ typed' = (IF act.called /\ act.ok THEN typed + Len(input_buffer) ELSE typed)
        /\ last_key' = NoKey
        /\ UNCHANGED << focus_dir, break_now >>

---------------------------------------------------------------------------
(* handle_popup_input                                                      *)

\* Esc in a popup that also puts the selection back on the first entry.
PopupEsc_ResetsSelection(key) ==
    /\ Popup(key, "Esc")
    /\ popup_mode' = "None"
    /\ input_buffer' = << >>
    /\ at_open' = NoView
    /\ selected_index' = 0
    /\ list_state' = 0
    /\ Continue
    /\ last_key' = NoKey
    /\ last_action' = Closed(popup_mode, input_buffer, entries, selected_index, "cancelled")
    /\ UNCHANGED << fs, focus_dir, entries, break_now, typed >>

\* Esc in a popup that also sets the exit flag.
PopupEsc_Exits(key) ==
    /\ Popup(key, "Esc")
    /\ popup_mode' = "None"
    /\ input_buffer' = << >>
    /\ at_open' = NoView
    /\ break_now' = TRUE
    /\ Continue
    /\ last_key' = NoKey
    /\ last_action' = Closed(popup_mode, input_buffer, entries, selected_index, "cancelled")
    /\ UNCHANGED << fs, focus_dir, entries, selected_index, list_state, typed >>

PopupEsc(key) ==
    /\ Popup(key, "Esc")
    /\ popup_mode' = "None"
    /\ input_buffer' = << >>
    /\ at_open' = NoView
    /\ Continue
    /\ last_key' = NoKey
    /\ last_action' = Closed(popup_mode, input_buffer, entries, selected_index, "cancelled")
    /\ UNCHANGED << fs, focus_dir, entries, selected_index, list_state,
                    break_now, typed >>

PopupEnter(key) ==
    /\ Popup(key, "Enter")
    /\ execute_popup_action

\* String::pop
PopupBackspace(key) ==
    /\ Popup(key, "Backspace")
    /\ input_buffer' =
           (IF input_buffer = << >> THEN << >>
            ELSE SubSeq(input_buffer, 1, Len(input_buffer) - 1))
    /\ Continue
    /\ last_key' = NoKey
    /\ last_action' = NoAction
    /\ UNCHANGED << fs, focus_dir, entries, selected_index, list_state,
                    popup_mode, break_now, typed, at_open >>

\* String::push
PopupChar(key) ==
    /\ Popup(key, "Char")
    /\ input_buffer' = Append(input_buffer, key.ch)
    /\ Continue
    /\ last_key' = NoKey
    /\ last_action' = NoAction
    /\ UNCHANGED << fs, focus_dir, entries, selected_index, list_state,
                    popup_mode, break_now, typed, at_open >>

\* The `_ => {}` arm: the arrow keys.
PopupOther(key) ==
    /\ \E code \in {"Right", "Left", "Up", "Down"} : Popup(key, code)
    /\ Continue
    /\ last_key' = NoKey
    /\ last_action' = NoAction
    /\ UNCHANGED << fs, focus_dir, entries, selected_index, list_state,
                    popup_mode, input_buffer, break_now, typed, at_open >>

handle_popup_input(key) ==
    \/ PopupEsc(key)
    \/ PopupEnter(key)
    \/ PopupBackspace(key)
    \/ PopupChar(key)
    \/ PopupOther(key)

---------------------------------------------------------------------------
(* handle_input and the end of main                                        *)

handle_input(key) ==
    \/ handle_popup_input(key)
    \/ handle_main_input(key)

\* The loop is left and the terminal restored.
Exit ==
    /\ pc = "running"
    /\ ~LoopContinues(pc, break_now)
    /\ terminal' = [raw |-> FALSE, cursor |-> "shown"]
    /\ pc' = "leaving"
    /\ UNCHANGED << fs, focus_dir, entries, selected_index, list_state,
                    popup_mode, input_buffer, break_now, shell_cmds, typed,
                    at_open, last_action, last_key >>

\* The hand-off command is run with focus_dir and main returns Ok.
HandOff ==
    /\ pc = "leaving"
    /\ shell_cmds' = Append(shell_cmds, focus_dir)
    /\ pc' = "done"
    /\ UNCHANGED << fs, focus_dir, entries, selected_index, list_state,
                    popup_mode, input_buffer, break_now, terminal, typed,
                    at_open, last_action, last_key >>

Next ==
    \/ \E key \in Keys : handle_input(key)
    \/ Exit
    \/ HandOff

Spec == Init /\ [][Next]_vars

\* The loop polls with a timeout, so it always comes round to its exit test,
\* and the statements after the loop run to the end.
FairSpec == Spec /\ WF_vars(Exit) /\ WF_vars(HandOff)

---------------------------------------------------------------------------
(* Well-formedness of the model's state                                    *)

Names == UNION {[1..n -> Chars \ {"/"}] : n \in 1..MaxTyped}

TypeOK ==
    /\ \A n \in fs : n.path # << >> /\ DirAt(fs, Parent(n.path))
    /\ \A n, m \in fs : n.path = m.path => n = m
    /\ DirAt(fs, focus_dir)
    /\ selected_index \in Nat
    /\ popup_mode \in PopupMode
    /\ break_now \in BOOLEAN
    /\ pc \in {"running", "leaving", "done", "crashed"}
    /\ typed \in Nat

---------------------------------------------------------------------------
(* Vocabulary of the properties                                            *)

Range(v) == {v[i] : i \in 1..Len(v)}

\* v is strictly increasing in String order.
Sorted(v) == \A i \in 1..(Len(v) - 1) : StrLess(v[i], v[i + 1])

\* v is the sorted listing of directory d of tree f.
IsListing(v, f, d) == Sorted(v) /\ Range(v) = ChildNames(f, d)

\* The path of the selected entry; only used where there is one.
SelectedPath == Append(focus_dir, entries[selected_index + 1])

\* The step is Enter, respectively Esc, handled with a popup open.
EnterInPopup == \E key \in Keys : PopupEnter(key)
EscInPopup == \E key \in Keys : PopupEsc(key)

\* What the action of the open popup does in the present state.
PendingAction ==
    PopupAction(popup_mode, fs, focus_dir, input_buffer, entries, selected_index)

\* v without the elements equal to x.
Without(v, x) == SelectSeq(v, LAMBDA y : y # x)

Min(a, b) == IF a < b THEN a ELSE b

\* The path of the entry that was selected when the open popup was opened.
OpenedOn == Append(at_open.focus_dir, at_open.entries[at_open.selected_index + 1])

\* The step is Esc, handled by whichever handler is in charge.
EscKey == \E key \in Keys : PopupEsc(key) \/ MainEsc(key)

Raw == [raw |-> TRUE, cursor |-> "hidden"]
Restored == [raw |-> FALSE, cursor |-> "shown"]

---------------------------------------------------------------------------
(* C1..C5                                                                  *)

\* C1: in every reachable state the selection is inside a non-empty listing,
\* and is 0 when the listing is empty.
C1_SelectionInBounds ==
    /\ entries # << >> => 0 <= selected_index /\ selected_index < Len(entries)
    /\ entries = << >> => selected_index = 0

\* A confirmed Delete has removed the entry listed last, and the selection is
\* on the entry that is last now.
C1_Witness ==
    /\ last_action.mode = "Delete"
    /\ last_action.result = "done"
    /\ entries # << >>
    /\ \A i \in 1..Len(entries) : StrLess(entries[i], last_action.target)
    /\ selected_index = Len(entries) - 1

\* C2: Enter in the Delete popup removes the selected entry if and only if
\* the text, lower-cased and not trimmed, is "y" or "yes"; with any other
\* text the tree is unchanged and the entry still there.
C2_DeleteExactConfirmation ==
    [][ EnterInPopup /\ popup_mode = "Delete" /\ selected_index < Len(entries)
        => IF to_lowercase(input_buffer) \in { << "y" >>, << "y", "e", "s" >> }
           THEN /\ ~HasNode(fs', SelectedPath)
                /\ fs' = fs \ Under(fs, SelectedPath)
           ELSE /\ fs' = fs
                /\ HasNode(fs', SelectedPath) ]_vars

\* "Yes" has deleted an entry.
C2_Witness ==
    /\ last_action.mode = "Delete"
    /\ last_action.buffer = << "Y", "e", "s" >>
    /\ last_action.result = "done"
    /\ ~HasNode(fs, Append(focus_dir, last_action.target))

\* C3: Esc in a popup leaves focus_dir, entries, selected_index and the tree
\* as they were when the popup was opened, does not set the exit flag and
\* closes the popup.
C3_CancelHasNoEffect ==
    [][ EscInPopup
        => /\ focus_dir' = at_open.focus_dir
           /\ entries' = at_open.entries
           /\ selected_index' = at_open.selected_index
           /\ fs' = at_open.fs
           /\ break_now' = FALSE
           /\ popup_mode' = "None" ]_vars

\* A Rename popup whose text was edited has been cancelled with the selection
\* off the first entry.
C3_Witness ==
    /\ last_action.mode = "Rename"
    /\ last_action.result = "cancelled"
    /\ last_action.buffer # last_action.target
    /\ selected_index > 0
    /\ popup_mode = "None"

\* C4: Enter in the Rename popup with the name of another entry of focus_dir
\* as text makes no filesystem change and closes the popup.
C4_RenameCollisionGuard ==
    [][ /\ EnterInPopup
        /\ popup_mode = "Rename"
        /\ selected_index < Len(entries)
        /\ input_buffer \in Range(entries)
        /\ input_buffer # entries[selected_index + 1]
        => /\ fs' = fs
           /\ popup_mode' = "None" ]_vars

\* A file was to be renamed to the name of another file; both are there.
C4_Witness ==
    /\ last_action.mode = "Rename"
    /\ last_action.result = "noop"
    /\ last_action.buffer # last_action.target
    /\ FileAt(fs, Append(focus_dir, last_action.buffer))
    /\ FileAt(fs, Append(focus_dir, last_action.target))
    /\ popup_mode = "None"

\* C5: Enter in the CreateFile or CreateDir popup with the name of an entry
\* of focus_dir as text leaves the tree unchanged and closes the popup with
\* an empty buffer.
C5_CreateNoOpOnCollision ==
    [][ /\ EnterInPopup
        /\ popup_mode \in {"CreateFile", "CreateDir"}
        /\ input_buffer \in Range(entries)
        => /\ fs' = fs
           /\ popup_mode' = "None"
           /\ input_buffer' = << >> ]_vars

\* CreateFile was answered with the name of an existing, non-empty file.
C5_Witness ==
    /\ last_action.mode = "CreateFile"
    /\ last_action.result = "noop"
    /\ \E n \in fs : n.path = Append(focus_dir, last_action.buffer)
                     /\ n.kind = "file" /\ n.size > 0
    /\ popup_mode = "None"

---------------------------------------------------------------------------
(* C6..C10                                                                 *)

C7_NavigationReset ==
    [][ /\ \/ \E key \in Keys : MainLeft(key)
           \/ (\E key \in Keys : MainRight(key)) /\ focus_dir' # focus_dir
        /\ pc' = "running"
        => /\ selected_index' = 0
           /\ IsListing(entries', fs', focus_dir') ]_vars

\* Right has entered a directory that was not first in its listing, and
\* which is empty.
C7_Witness ==
    /\ Len(focus_dir) = 2
    /\ entries = << >>
    /\ \E n \in ChildNames(fs, Parent(focus_dir)) : StrLess(n, focus_dir[2])
    /\ selected_index = 0
    /\ popup_mode = "None"
    /\ last_action = NoAction
    /\ pc = "running"

\* C8: in every reachable state in which the program has not been ended by
\* a failed filesystem call, entries is sorted, without duplicates, and holds
\* exactly the names of the children of focus_dir.
C8_EntriesAreTheListing == pc # "crashed" => IsListing(entries, fs, focus_dir)

\* A file has been created and is listed between two older entries.
C8_Witness ==
    /\ last_action.mode = "CreateFile"
    /\ last_action.result = "done"
    /\ \E i \in 2..(Len(entries) - 1) : entries[i] = last_action.buffer
    /\ FileAt(fs, Append(focus_dir, last_action.buffer))
    /\ pc = "running"

\* C9: while a popup is open no key event changes focus_dir, sets the exit
\* flag, or opens another popup, and entries and selected_index stay as they
\* are until the popup closes; while none is open the buffer changes only by
\* Rename opening.
C9_PopupCapturesInput ==
    [][ /\ popup_mode # "None"
           => /\ focus_dir' = focus_dir
              /\ break_now' = break_now
              /\ popup_mode' \in {popup_mode, "None"}
              /\ popup_mode' = popup_mode
                    => entries' = entries /\ selected_index' = selected_index
        /\ popup_mode = "None" /\ input_buffer' # input_buffer
           => popup_mode' = "Rename" ]_vars

\* The key d, which opens Delete while browsing, was typed into the text of
\* a create popup opened with the selection off the first entry.
C9_Witness ==
    /\ popup_mode \in {"CreateFile", "CreateDir"}
    /\ input_buffer = << "d" >>
    /\ selected_index > 0
    /\ ~break_now

\* C10: Enter and Esc with no popup open set the exit flag and leave
\* focus_dir alone; once the flag is set the only steps are leaving the loop
\* and running the hand-off command with the focus_dir of that moment, and
\* no key is handled; no command is run before, exactly one after; and the
\* exit follows.
C10_ExitAndHandOff ==
    /\ [][ (\E key \in Keys : MainEnter(key) \/ MainEsc(key))
           => break_now' /\ focus_dir' = focus_dir ]_vars
    /\ [][ break_now
           => /\ app' = app /\ fs' = fs
              /\ \/ pc = "running" /\ pc' = "leaving" /\ shell_cmds' = shell_cmds
                 \/ pc = "leaving" /\ pc' = "done" /\ shell_cmds' = << focus_dir >> ]_vars
    /\ [](pc = "done" => shell_cmds = << focus_dir >>)
    /\ [](pc # "done" => shell_cmds = << >>)
    /\ (break_now ~> pc = "done")

\* The program has exited from an empty directory: nothing was selected.
C10_Witness ==
    /\ pc = "done"
    /\ entries = << >>
    /\ shell_cmds = << focus_dir >>
    /\ focus_dir # InitDir

---------------------------------------------------------------------------
(* C11..C15                                                                *)

\* C11 as stated: a failed create, delete or rename call ends the program
\* from its handler; whenever the program is ended by a failed call or a
\* failed listing the terminal stays raw with the cursor hidden, no hand-off
\* command is run and the popup mode and text are what they were before the
\* key; nothing happens afterwards; and on the normal exit the terminal is
\* restored before the command is run.
C11_FailuresSkipCleanup ==
    /\ [][ EnterInPopup /\ ~PendingAction.ok => pc' = "crashed" ]_vars
    /\ [][ pc' = "crashed"
           => /\ terminal' = Raw
              /\ shell_cmds' = << >>
              /\ popup_mode' = popup_mode
              /\ input_buffer' = input_buffer ]_vars
    /\ [][ pc # "crashed" ]_vars
    /\ [](pc \in {"leaving", "done"} \/ shell_cmds # << >> => terminal = Restored)

\* C11 amended: the same, except that when the listing after a popup's
\* action fails the popup has already been closed and its text cleared; the
\* popup mode and text are kept when the action's own call fails.
C11_FailuresAreFatal ==
    /\ [][ EnterInPopup /\ ~PendingAction.ok => pc' = "crashed" ]_vars
    /\ [][ pc' = "crashed"
           => /\ terminal' = Raw
              /\ shell_cmds' = << >>
              /\ \/ popup_mode' = popup_mode /\ input_buffer' = input_buffer
                 \/ /\ EnterInPopup /\ PendingAction.ok
                    /\ popup_mode' = "None" /\ input_buffer' = << >> ]_vars
    /\ [][ pc # "crashed" ]_vars
    /\ [](pc \in {"leaving", "done"} \/ shell_cmds # << >> => terminal = Restored)

\* A file was created, the listing that follows failed: the program has
\* ended with the terminal raw, no command run and the popup closed.
C11_Witness ==
    /\ pc = "crashed"
    /\ last_action.mode = "CreateFile"
    /\ last_action.result = "done"
    /\ FileAt(fs, Append(focus_dir, last_action.buffer))
    /\ last_action.buffer \notin Range(entries)
    /\ popup_mode = "None"
    /\ terminal = Raw
    /\ shell_cmds = << >>

\* C12: the buffer is empty whenever no popup is open; it is empty right
\* after CreateFile, CreateDir or Delete opens, is the selected entry's name
\* right after Rename opens, and is empty when a popup closes, by Esc or by
\* Enter.
C12_BufferEmptyWithoutPopup ==
    /\ [](popup_mode = "None" => input_buffer = << >>)
    /\ [][ popup_mode = "None" /\ popup_mode' \in {"CreateFile", "CreateDir", "Delete"}
           => input_buffer' = << >> ]_vars
    /\ [][ popup_mode = "None" /\ popup_mode' = "Rename"
           => /\ selected_index < Len(entries)
              /\ input_buffer' = entries[selected_index + 1] ]_vars
    /\ [][ popup_mode # "None" /\ popup_mode' = "None" => input_buffer' = << >> ]_vars

\* Rename was opened on an entry that is not the first, its text replaced by
\* another and cancelled: the popup is closed and the buffer empty.
C12_Witness ==
    /\ last_action.mode = "Rename"
    /\ last_action.result = "cancelled"
    /\ last_action.buffer # << >>
    /\ ~IsPrefix(last_action.target, last_action.buffer)
    /\ last_action.target # entries[1]
    /\ popup_mode = "None"
    /\ input_buffer = << >>

\* C13 as stated: Left handled with focus_dir the root changes none of
\* focus_dir, entries and selected_index.
C13_LeftAtRootIsNoOp ==
    [][ (\E key \in Keys : MainLeft(key)) /\ focus_dir = << >>
        => /\ focus_dir' = focus_dir
           /\ entries' = entries
           /\ selected_index' = selected_index ]_vars

\* C13 amended: Left handled with focus_dir the root leaves focus_dir and
\* entries as they are and puts the selection on index 0; if the listing
\* fails the program ends with the selection unchanged.
C13_LeftAtRootResetsSelection ==
    [][ (\E key \in Keys : MainLeft(key)) /\ focus_dir = << >>
        => /\ focus_dir' = focus_dir
           /\ entries' = entries
           /\ selected_index' = (IF pc' = "running" THEN 0 ELSE selected_index) ]_vars

\* Left was handled at the root with the selection on a later entry; the
\* selection is on the first entry now.
C13_Witness ==
    /\ last_key.code = "Left"
    /\ last_key.focus_dir = << >>
    /\ last_key.selected_index > 0
    /\ focus_dir = << >>
    /\ Len(entries) > 1
    /\ selected_index = 0
    /\ pc = "running"

\* C14: Up at index 0 and Down at the last index leave the selection where
\* it is, otherwise each moves it by exactly one; on an empty listing both
\* leave it 0; neither changes focus_dir, entries, the popup mode or the
\* exit flag.
C14_UpDownClamp ==
    /\ [][ (\E key \in Keys : MainUp(key))
           => selected_index' =
                  (IF selected_index = 0 THEN 0 ELSE selected_index - 1) ]_vars
    /\ [][ (\E key \in Keys : MainDown(key))
           => selected_index' =
                  (IF entries = << >> THEN 0
                   ELSE IF selected_index = Len(entries) - 1 THEN selected_index
                   ELSE selected_index + 1) ]_vars
    /\ [][ (\E key \in Keys : MainUp(key) \/ MainDown(key))
           => /\ focus_dir' = focus_dir
              /\ entries' = entries
              /\ popup_mode' = popup_mode
              /\ break_now' = break_now ]_vars

\* Down was handled with the last of several entries selected, and it still
\* is.
C14_Witness ==
    /\ last_key.code = "Down"
    /\ Len(entries) > 1
    /\ last_key.selected_index = Len(entries) - 1
    /\ selected_index = Len(entries) - 1
    /\ focus_dir = last_key.focus_dir

\* C15: Right with a directory selected sets focus_dir to that directory
\* and, the listing having succeeded, entries to its listing and the
\* selection to index 0; Right with a file selected or with no entries
\* changes none of focus_dir, entries and selected_index.
C15_RightEntersDirectoriesOnly ==
    [][ (\E key \in Keys : MainRight(key))
        => IF selected_index < Len(entries) /\ DirAt(fs, SelectedPath)
           THEN /\ focus_dir' = SelectedPath
                /\ pc' = "running"
                       => selected_index' = 0 /\ IsListing(entries', fs', focus_dir')
           ELSE /\ focus_dir' = focus_dir
                /\ entries' = entries
                /\ selected_index' = selected_index ]_vars

\* Down, then Right: a directory listed after a file has been entered from
\* index 1 and the selection is on index 0.
C15_Witness ==
    /\ last_key.code = "Right"
    /\ last_key.selected_index = 1
    /\ Len(focus_dir) = Len(last_key.focus_dir) + 1
    /\ IsPrefix(last_key.focus_dir, focus_dir)
    /\ \E n \in ChildNames(fs, last_key.focus_dir) :
           /\ StrLess(n, focus_dir[Len(focus_dir)])
           /\ FileAt(fs, Append(last_key.focus_dir, n))
    /\ selected_index = 0
    /\ pc = "running"

---------------------------------------------------------------------------
(* C16..C20                                                                *)

\* C16: d/D and r/R open Delete and Rename when entries is non-empty and
\* change nothing when it is empty, so Delete and Rename are only ever open
\* over a selected entry; n/N always opens a create popup, CreateDir with
\* shift and CreateFile without, also on an empty listing.
C16_PopupsOverValidSelection ==
    /\ [][ \A key \in Keys :
               /\ MainKeyD(key) => IF entries = << >>
                                   THEN app' = app /\ fs' = fs
                                   ELSE popup_mode' = "Delete"
               /\ MainKeyR(key) => IF entries = << >>
                                   THEN app' = app /\ fs' = fs
                                   ELSE popup_mode' = "Rename"
               /\ MainKeyN(key) => popup_mode' =
                                       (IF key.shift THEN "CreateDir" ELSE "CreateFile")
          ]_vars
    /\ [](popup_mode \in {"Delete", "Rename"}
            => entries # << >> /\ selected_index < Len(entries))

\* D was handled on an empty listing and no popup is open.
C16_Witness ==
    /\ last_key.code = "Char"
    /\ last_key.ch = "D"
    /\ last_key.focus_dir = focus_dir
    /\ entries = << >>
    /\ popup_mode = "None"
    /\ pc = "running"

\* C17: Enter in CreateFile, CreateDir or Rename with an empty or all-blank
\* text, and Enter in Rename with the text still the selected entry's name,
\* make no filesystem call: the tree, focus_dir and the set of entries are
\* unchanged and the popup closes.
C17_EmptyAndIdentityAreNoOps ==
    [][ /\ EnterInPopup
        /\ \/ /\ popup_mode \in {"CreateFile", "CreateDir", "Rename"}
              /\ trim(input_buffer) = << >>
           \/ /\ popup_mode = "Rename"
              /\ selected_index < Len(entries)
              /\ input_buffer = entries[selected_index + 1]
        => /\ ~PendingAction.called
           /\ last_action'.result = "noop"
           /\ fs' = fs
           /\ focus_dir' = focus_dir
           /\ Range(entries') = Range(entries)
           /\ popup_mode' = "None" ]_vars

\* Rename was opened on a directory that holds something and answered at
\* once: the directory is where it was.
C17_Witness ==
    /\ last_action.mode = "Rename"
    /\ last_action.result = "noop"
    /\ last_action.buffer = last_action.target
    /\ DirAt(fs, Append(focus_dir, last_action.target))
    /\ ChildNames(fs, Append(focus_dir, last_action.target)) # {}
    /\ popup_mode = "None"
    /\ pc = "running"

\* C18: while Delete or Rename is open, focus_dir, entries, selected_index
\* and the tree are what they were when it opened.  A confirmed Delete finds
\* its entry, removes that entry with all below it and nothing else, and,
\* the listing having succeeded, entries is the old entries without that
\* name, one shorter.  A Rename that makes its call moves that same entry.
C18_DeleteRemovesTheHighlighted ==
    /\ [](popup_mode \in {"Delete", "Rename"}
            => /\ focus_dir = at_open.focus_dir
               /\ entries = at_open.entries
               /\ selected_index = at_open.selected_index
               /\ fs = at_open.fs)
    /\ [][ EnterInPopup /\ popup_mode = "Delete" /\ Confirmed(input_buffer)
           => /\ selected_index < Len(entries)
              /\ HasNode(fs, OpenedOn)
              /\ fs' = fs \ Under(fs, OpenedOn)
              /\ pc' = "running"
                    => /\ entries' = Without(entries, OpenedOn[Len(OpenedOn)])
                       /\ Len(entries') = Len(entries) - 1 ]_vars
    /\ [][ EnterInPopup /\ popup_mode = "Rename" /\ fs' # fs
           => /\ selected_index < Len(entries)
              /\ HasNode(fs, OpenedOn)
              /\ ~HasNode(fs', OpenedOn)
              /\ fs \ Under(fs, OpenedOn) = fs' \ Under(fs', join(focus_dir, input_buffer).comps)
          ]_vars

\* A confirmed Delete has removed an entry listed between two others, which
\* are both still listed.
C18_Witness ==
    /\ last_action.mode = "Delete"
    /\ last_action.result = "done"
    /\ \E i \in 1..(Len(entries) - 1) :
           /\ StrLess(entries[i], last_action.target)
           /\ StrLess(last_action.target, entries[i + 1])
    /\ ~HasNode(fs, Append(focus_dir, last_action.target))
    /\ pc = "running"

\* C19: Enter in a popup leaves the selection on the same position, moved
\* only as far as the end of a shorter listing: selected_index becomes the
\* smaller of selected_index and the last index of the new entries, and is
\* unchanged when the new listing is empty.
C19_RefreshKeepsPosition ==
    [][ EnterInPopup
        => selected_index' =
               (IF entries' = << >> THEN selected_index
                ELSE Min(selected_index, Len(entries') - 1)) ]_vars

\* A file has been created whose name sorts before the entry that was
\* selected, not the first one: the selection has not moved and is on
\* another name now.
C19_Witness ==
    /\ last_action.mode = "CreateFile"
    /\ last_action.result = "done"
    /\ last_action.target # << >>
    /\ StrLess(last_action.buffer, last_action.target)
    /\ selected_index > 0
    /\ selected_index < Len(entries)
    /\ entries[selected_index + 1] # last_action.target
    /\ entries[selected_index + 1] # last_action.buffer
    /\ pc = "running"

\* C20: the exit flag is false at startup; once it is set it stays set and
\* AppState and the tree no longer change; it is set only by Enter or Esc
\* handled with no popup open; Esc with a popup open closes the popup and
\* does no more; Esc is accepted in every running state, so Esc, Esc sets
\* the flag.
C20_ExitFlagMonotone ==
    /\ ~break_now
    /\ [][ break_now => break_now' /\ app' = app /\ fs' = fs ]_vars
    /\ [][ ~break_now /\ break_now'
           => /\ popup_mode = "None"
              /\ \E key \in Keys : MainEnter(key) \/ MainEsc(key) ]_vars
    /\ [][ EscInPopup
           => /\ popup_mode' = "None"
              /\ ~break_now'
              /\ pc' = "running"
              /\ << fs, focus_dir, entries, selected_index >>'
                    = << fs, focus_dir, entries, selected_index >> ]_vars
    /\ [][ (\E key \in Keys : MainEsc(key)) => break_now' ]_vars
    /\ [](pc = "running" /\ ~break_now => ENABLED EscKey)

\* Esc closed a Rename popup, the next Esc set the exit flag.
C20_Witness ==
    /\ break_now
    /\ last_key.code = "Esc"
    /\ last_key.follows = "cancelled"
    /\ popup_mode = "None"

====
